---- MODULE Spec2Model ----
(***************************************************************************)
(* Model of the mongoose-i18n-extra plugin (src/src/mongoose-i18n-extra.ts) *)
(*                                                                         *)
(* One document of schema "Post" with its marked field, the stored _i18n   *)
(* overlay, the instance language, the plugin options objects of the       *)
(* schemas (Post nests Comment, Comment nests Tag) and one connection with *)
(* its registered models.                                                  *)
(*                                                                         *)
(* Encoding of JavaScript values:                                          *)
(*   field values : Null (undefined/null), 0 (the empty string ""),        *)
(*                  1..MaxVal (distinct non-empty strings)                 *)
(*   language     : NoLang ("" / undefined, falsy) or a language code      *)
(*   stored _i18n : has  - an object is stored under _doc._i18n            *)
(*                  keys - the language keys holding an object             *)
(*                  val  - the values of those objects (Null elsewhere)    *)
(*   options      : one record per options object handed to the plugin;    *)
(*                  optsRef names the object each schema was plugged with  *)
(*   fallbackLang : schemaType.options.fallbackLang of each marked field   *)
(*   ret          : what the last call returned (reads), or that a setter  *)
(*                  ignored its argument                                   *)
(*                                                                         *)
(* The getter and setter of a marked field run on a document, so the       *)
(* branch `!this.getLanguage` is never taken.                              *)
(***************************************************************************)
EXTENDS Integers, Sequences, FiniteSets, TLC

MaxVal == 1

Null == -1

Val == {Null} \cup (0..MaxVal)

\* JavaScript truthiness of a field value
Truthy(v) == v >= 1

Languages == {"en", "fr", "de"}

NoLang == ""

\* an unset function slot of the connection or of mongoose
NoFn == ""

\* the language codes handed to the setters: valid, empty and unknown
LangInputs == Languages \cup {NoLang, "xx"}

Fields == {"title"}

Schemas == {"Post", "Comment", "Tag"}

\* schemaType.schema of the paths of a schema (sub-documents, document arrays)
SubSchemas(s) == IF s = "Post" THEN <<"Comment">> ELSE IF s = "Comment" THEN <<"Tag">> ELSE <<>>

ObjIds == {"o1", "o2", "o3"}

\* the models that may be compiled on the connection; "Plain" has no plugin
Models == {"Post", "Comment", "Plain"}

HasPlugin(m) == m \in Schemas

VARIABLES base, i18n, isNew, docLanguage, options, optsRef, fallbackLang,
          models, db, mongooseAlias, ret

vars == <<base, i18n, isNew, docLanguage, options, optsRef, fallbackLang,
          models, db, mongooseAlias, ret>>

docVars == <<base, i18n, isNew>>

connVars == <<models, db, mongooseAlias>>

NullObj == [f \in Fields |-> Null]

NoI18n == [has |-> FALSE, keys |-> {}, val |-> [l \in Languages |-> NullObj]]

NoRet == [op |-> "none", f |-> "", lang |-> NoLang, val |-> Null, agg |-> NoI18n]

\* what a setter leaves behind when it ignores its argument
Rejected == [NoRet EXCEPT !.op = "rejected"]

Ret(op, f, lang, val) == [op |-> op, f |-> f, lang |-> lang, val |-> val, agg |-> NoI18n]

\* model m is in connection.models
Registered(m) == \E i \in 1..Len(models) : models[i] = m

\* the options object closed over by the plugin call on the document's schema
opt == options[optsRef["Post"]]

\* getPathValue(this, "_i18n.<lang>.<path>") and this.get of the same path
getI18nValue(lang, path) ==
    IF i18n.has /\ lang \in i18n.keys THEN i18n.val[lang][path] ELSE Null

\* as withI18nValue, but the language object is not created when missing
withI18nValue_NoCreate(lang, path, value) ==
    [has |-> TRUE,
     keys |-> i18n.keys,
     val |-> IF lang \in i18n.keys THEN [i18n.val EXCEPT ![lang][path] = value] ELSE i18n.val]

\* the stored overlay with _i18n[lang][path] = value, objects created on the way
withI18nValue(lang, path, value) ==
    [has |-> TRUE,
     keys |-> i18n.keys \cup {lang},
     val |-> [i18n.val EXCEPT ![lang][path] = value]]

getLanguages == opt.languages

\* as getLanguage, but the schema-wide language wins over the instance override
getLanguage_SchemaFirst ==
    IF opt.language # NoLang THEN opt.language
    ELSE IF docLanguage # NoLang THEN docLanguage
    ELSE opt.defaultLanguage

getLanguage ==
    IF docLanguage # NoLang THEN docLanguage
    ELSE IF opt.language # NoLang THEN opt.language
    ELSE opt.defaultLanguage

\* as fieldGetAs, but the fallback language is never looked up
fieldGetAs_NoFallback(lang, path) ==
    IF lang = opt.defaultLanguage
    THEN base[path]
    ELSE LET val == getI18nValue(lang, path) IN
         IF Truthy(val) THEN val
         ELSE IF fallbackLang[path] # NoLang THEN base[path]
              ELSE getI18nValue(lang, path)

\* schemaType.options.get, with this.getLanguage() returning lang
fieldGetAs(lang, path) ==
    IF lang = opt.defaultLanguage
    THEN base[path]
    ELSE LET val == getI18nValue(lang, path) IN
         IF Truthy(val) THEN val
         ELSE IF fallbackLang[path] # NoLang
              THEN LET val2 == getI18nValue(fallbackLang[path], path) IN
                   IF Truthy(val2) THEN val2 ELSE base[path]
              ELSE getI18nValue(lang, path)

fieldGet(path) == fieldGetAs(getLanguage, path)

\* as fieldSetReturn, but the empty base slot is filled on stored documents too
fieldSetReturn_NoIsNew(path, value) ==
    IF getLanguage = opt.defaultLanguage
    THEN value
    ELSE IF ~Truthy(base[path]) THEN value ELSE base[path]

\* the value schemaType.options.set returns, which the host stores in the base slot
fieldSetReturn(path, value) ==
    IF getLanguage = opt.defaultLanguage
    THEN value
    ELSE IF isNew /\ ~Truthy(base[path]) THEN value ELSE base[path]

\* the stored overlay after schemaType.options.set
fieldSetI18n(path, value) ==
    IF getLanguage = opt.defaultLanguage
    THEN i18n
    ELSE withI18nValue(getLanguage, path, value)

FieldGet(path) ==
    /\ Registered("Post")
    /\ ret' = Ret("get", path, NoLang, fieldGet(path))
    /\ UNCHANGED <<docVars, docLanguage, options, optsRef, fallbackLang, connVars>>

FieldSet(path, value) ==
    /\ Registered("Post")
    /\ i18n' = fieldSetI18n(path, value)
    /\ base' = [base EXCEPT ![path] = fieldSetReturn(path, value)]
    /\ ret' = NoRet
    /\ UNCHANGED <<isNew, docLanguage, options, optsRef, fallbackLang, connVars>>


\* virtual `${path}_${lang}` getter
virtualGet(path, lang) ==
    IF lang = opt.defaultLanguage THEN base[path] ELSE getI18nValue(lang, path)

VirtualGet(path, lang) ==
    /\ Registered("Post")
    /\ ret' = Ret("vget", path, lang, virtualGet(path, lang))
    /\ UNCHANGED <<docVars, docLanguage, options, optsRef, fallbackLang, connVars>>

\* virtual `${path}_${lang}` setter; this.set(`_i18n.${lang}.${path}`, value)
\* stores value under that path of the document, creating the objects on the way
VirtualSet(path, lang, value) ==
    /\ Registered("Post")
    /\ IF lang = opt.defaultLanguage
       THEN /\ base' = [base EXCEPT ![path] = value]
            /\ i18n' = i18n
       ELSE /\ i18n' = withI18nValue(lang, path, value)
            /\ base' = base
    /\ ret' = NoRet
    /\ UNCHANGED <<isNew, docLanguage, options, optsRef, fallbackLang, connVars>>

\* value[lang][fieldName] || null
orNull(v) == IF Truthy(v) THEN v ELSE Null

\* as i18nView, but the default-language entry is not filled from the base slots
i18nView_NoBase ==
    [has |-> TRUE,
     keys |-> i18n.keys \cup {opt.defaultLanguage} \cup (IF Fields = {} THEN {} ELSE opt.languages),
     val |-> [l \in Languages |->
                IF l \in opt.languages THEN [f \in Fields |-> orNull(i18n.val[l][f])]
                ELSE i18n.val[l]]]

\* the object the `_i18n` getter returns: the stored object itself when there is
\* one (getPathValue hands out the reference), a fresh one otherwise
i18nView ==
    [has |-> TRUE,
     keys |-> i18n.keys \cup {opt.defaultLanguage} \cup (IF Fields = {} THEN {} ELSE opt.languages),
     val |-> [l \in Languages |->
                IF l = opt.defaultLanguage THEN [f \in Fields |-> base[f]]
                ELSE IF l \in opt.languages THEN [f \in Fields |-> orNull(i18n.val[l][f])]
                ELSE i18n.val[l]]]

I18nGet ==
    /\ Registered("Post")
    /\ ret' = [NoRet EXCEPT !.op = "i18n", !.agg = i18nView]
    /\ i18n' = IF i18n.has THEN i18nView ELSE i18n
    /\ UNCHANGED <<base, isNew, docLanguage, options, optsRef, fallbackLang, connVars>>

\* the objects handed to the `_i18n` setter: the language keys it carries, one
\* non-empty value under each, and the field keys of its default-language entry
Payloads ==
    [keys : SUBSET Languages, v : {MaxVal}, dkeys : SUBSET Fields]

payloadVal(p) == [l \in Languages |-> [f \in Fields |-> IF l \in p.keys THEN p.v ELSE Null]]

I18nSet(p) ==
    /\ Registered("Post")
    /\ IF opt.defaultLanguage \in p.keys
       THEN /\ base' = [f \in Fields |-> IF f \in p.dkeys THEN p.v ELSE base[f]]
            /\ i18n' = [has |-> TRUE,
                        keys |-> p.keys \ {opt.defaultLanguage},
                        val |-> [payloadVal(p) EXCEPT ![opt.defaultLanguage] = NullObj]]
       ELSE /\ base' = base
            /\ i18n' = [has |-> TRUE, keys |-> p.keys, val |-> payloadVal(p)]
    /\ ret' = NoRet
    /\ UNCHANGED <<isNew, docLanguage, options, optsRef, fallbackLang, connVars>>

GetLanguage ==
    /\ Registered("Post")
    /\ ret' = Ret("getLanguage", "", getLanguage, Null)
    /\ UNCHANGED <<docVars, docLanguage, options, optsRef, fallbackLang, connVars>>

\* method setLanguage
SetLanguage(lang) ==
    /\ Registered("Post")
    /\ docLanguage' = IF lang # NoLang /\ lang \in getLanguages THEN lang ELSE docLanguage
    /\ ret' = IF lang # NoLang /\ lang \in getLanguages THEN NoRet ELSE Rejected
    /\ UNCHANGED <<docVars, options, optsRef, fallbackLang, connVars>>

\* method unsetLanguage
UnsetLanguage ==
    /\ Registered("Post")
    /\ docLanguage' = NoLang
    /\ ret' = NoRet
    /\ UNCHANGED <<docVars, options, optsRef, fallbackLang, connVars>>

\* updateLanguage of the static setLanguage of model m: todo is the stack of
\* schemas still to visit; every visit assigns the options closed over by m
RECURSIVE updateLanguage(_, _, _, _)
updateLanguage(m, todo, lang, opts) ==
    IF todo = <<>> THEN opts
    ELSE updateLanguage(m, SubSchemas(Head(todo)) \o Tail(todo), lang,
                        [opts EXCEPT ![optsRef[m]].language = lang])

\* updateLanguage of the static setDefaultLanguage of model m
RECURSIVE updateDefaultLanguage(_, _, _, _)
updateDefaultLanguage(m, todo, lang, opts) ==
    IF todo = <<>> THEN opts
    ELSE updateDefaultLanguage(m, SubSchemas(Head(todo)) \o Tail(todo), lang,
                               [opts EXCEPT ![optsRef[m]].defaultLanguage = lang])

\* as accepts, but without the membership test
accepts_NonEmpty(m, lang, opts) == lang # NoLang

\* lang && this.getLanguages().indexOf(lang) !== -1, in a static of model m
accepts(m, lang, opts) == lang # NoLang /\ lang \in opts[optsRef[m]].languages

\* static setLanguage of model m, applied to the options objects opts
staticSetLanguage(m, lang, opts) ==
    IF accepts(m, lang, opts)
    THEN updateLanguage(m, <<m>>, lang, opts)
    ELSE opts

\* static setDefaultLanguage of model m, applied to the options objects opts
staticSetDefaultLanguage(m, lang, opts) ==
    IF accepts(m, lang, opts)
    THEN updateDefaultLanguage(m, <<m>>, lang, opts)
    ELSE opts

StaticSetLanguage(m, lang) ==
    /\ Registered(m) /\ HasPlugin(m)
    /\ options' = staticSetLanguage(m, lang, options)
    /\ ret' = IF accepts(m, lang, options) THEN NoRet ELSE Rejected
    /\ UNCHANGED <<docVars, docLanguage, optsRef, fallbackLang, connVars>>

StaticSetDefaultLanguage(m, lang) ==
    /\ Registered(m) /\ HasPlugin(m)
    /\ options' = staticSetDefaultLanguage(m, lang, options)
    /\ ret' = IF accepts(m, lang, options) THEN NoRet ELSE Rejected
    /\ UNCHANGED <<docVars, docLanguage, optsRef, fallbackLang, connVars>>

\* as initDb, but without the check before the installation
initDb_Always(m) == [setDefaultLanguage |-> m, setLanguage |-> m]

\* schema.on("init"): the connection's two functions after the handler ran for
\* model m (a function is named by the model whose initialisation installed it)
initDb(m) ==
    IF db.setDefaultLanguage # NoFn THEN db
    ELSE [setDefaultLanguage |-> m, setLanguage |-> m]

\* schema.on("init"): the mongoose aliases after the handler ran for model m; the
\* connection is mongoose.connection
initAlias(m) ==
    IF db.setDefaultLanguage # NoFn THEN mongooseAlias
    ELSE [setDefaultLanguage |-> IF mongooseAlias.setDefaultLanguage = NoFn
                                 THEN initDb(m).setDefaultLanguage
                                 ELSE mongooseAlias.setDefaultLanguage,
          setLanguage |-> IF mongooseAlias.setLanguage = NoFn
                          THEN initDb(m).setLanguage
                          ELSE mongooseAlias.setLanguage]

\* model m is compiled on the connection: it enters connection.models and, when
\* its schema carries the plugin, the "init" handler runs
Compile(m) ==
    /\ ~Registered(m)
    /\ models' = Append(models, m)
    /\ IF HasPlugin(m)
       THEN /\ db' = initDb(m)
            /\ mongooseAlias' = initAlias(m)
       ELSE UNCHANGED <<db, mongooseAlias>>
    /\ ret' = NoRet
    /\ UNCHANGED <<docVars, docLanguage, options, optsRef, fallbackLang>>

\* model.db.setDefaultLanguage: the loop over this.models, ms being the models
\* still to visit
RECURSIVE dbSetDefaultLanguage(_, _, _)
dbSetDefaultLanguage(ms, lang, opts) ==
    IF ms = <<>> THEN opts
    ELSE dbSetDefaultLanguage(Tail(ms), lang,
            IF HasPlugin(Head(ms)) THEN staticSetDefaultLanguage(Head(ms), lang, opts) ELSE opts)

\* model.db.setLanguage
RECURSIVE dbSetLanguage(_, _, _)
dbSetLanguage(ms, lang, opts) ==
    IF ms = <<>> THEN opts
    ELSE dbSetLanguage(Tail(ms), lang,
            IF HasPlugin(Head(ms)) THEN staticSetLanguage(Head(ms), lang, opts) ELSE opts)

DbSetDefaultLanguage(lang) ==
    /\ db.setDefaultLanguage # NoFn
    /\ options' = dbSetDefaultLanguage(models, lang, options)
    /\ ret' = Ret("dbSetDefaultLanguage", "", lang, Null)
    /\ UNCHANGED <<docVars, docLanguage, optsRef, fallbackLang, connVars>>

DbSetLanguage(lang) ==
    /\ Registered("Post")
    /\ db.setLanguage # NoFn
    /\ options' = dbSetLanguage(models, lang, options)
    /\ ret' = Ret("dbSetLanguage", "", lang, Null)
    /\ UNCHANGED <<docVars, docLanguage, optsRef, fallbackLang, connVars>>

Init ==
    /\ base = NullObj
    /\ i18n = NoI18n
    /\ isNew \in BOOLEAN
    /\ docLanguage = NoLang
    /\ options = [o \in ObjIds |-> [defaultLanguage |-> "en", language |-> NoLang, languages |-> Languages]]
    /\ optsRef = [s \in Schemas |-> IF s = "Post" THEN "o1" ELSE IF s = "Comment" THEN "o2" ELSE "o3"]
    /\ fallbackLang \in [Fields -> {NoLang, "de"}]
    /\ models = <<"Post">>
    /\ db = [setDefaultLanguage |-> "Post", setLanguage |-> "Post"]
    /\ mongooseAlias = [setDefaultLanguage |-> "Post", setLanguage |-> "Post"]
    /\ ret = NoRet

Next ==
    \/ \E p \in Fields : FieldGet(p)
    \/ \E p \in Fields, v \in Val : FieldSet(p, v)
    \/ \E p \in Fields, l \in Languages : VirtualGet(p, l)
    \/ \E p \in Fields, l \in Languages, v \in Val : VirtualSet(p, l, v)
    \/ I18nGet
    \/ \E p \in Payloads : I18nSet(p)
    \/ \E l \in LangInputs : SetLanguage(l)
    \/ UnsetLanguage
    \/ \E l \in LangInputs : StaticSetDefaultLanguage("Post", l)

Spec == Init /\ [][Next]_vars

\* The same document without the reads that leave it as it is: the writes, the
\* aggregate read (which touches the stored overlay) and the language changes.
NextWrite ==
    \/ \E p \in Fields, v \in Val : FieldSet(p, v)
    \/ \E p \in Fields, l \in Languages, v \in Val : VirtualSet(p, l, v)
    \/ I18nGet
    \/ \E p \in Payloads : I18nSet(p)
    \/ \E l \in LangInputs : SetLanguage(l)
    \/ UnsetLanguage
    \/ \E l \in LangInputs : StaticSetDefaultLanguage("Post", l)

SpecWrite == Init /\ [][NextWrite]_vars
\* The schemas and the connection: the document's content stays as created, the
\* nested schemas share the parent's options object or carry their own, and no
\* model is compiled yet.
InitSchema ==
    /\ base = NullObj
    /\ i18n = NoI18n
    /\ isNew = TRUE
    /\ docLanguage = NoLang
    /\ options = [o \in ObjIds |->
                    [defaultLanguage |-> "en", language |-> NoLang,
                     languages |-> IF o = "o2" THEN {"en", "fr"} ELSE Languages]]
    /\ \E c \in {"o1", "o2"} : \E t \in {c, "o3"} :
          optsRef = [s \in Schemas |-> IF s = "Post" THEN "o1" ELSE IF s = "Comment" THEN c ELSE t]
    /\ fallbackLang = [f \in Fields |-> NoLang]
    /\ models = <<>>
    /\ db = [setDefaultLanguage |-> NoFn, setLanguage |-> NoFn]
    /\ mongooseAlias = [setDefaultLanguage |-> NoFn, setLanguage |-> NoFn]
    /\ ret = NoRet

NextSchema ==
    \/ GetLanguage
    \/ \E l \in LangInputs : SetLanguage(l)
    \/ UnsetLanguage
    \/ \E m \in Models, l \in LangInputs : StaticSetLanguage(m, l)
    \/ \E m \in Models, l \in LangInputs : StaticSetDefaultLanguage(m, l)
    \/ \E m \in Models : Compile(m)
    \/ \E l \in LangInputs : DbSetDefaultLanguage(l)
    \/ \E l \in LangInputs : DbSetLanguage(l)

SpecSchema == InitSchema /\ [][NextSchema]_vars
(***************************************************************************)
(* Properties                                                              *)
(***************************************************************************)

\* the stored overlay entry overlay[l][f]; Null when there is none
Overlay(l, f) == i18n.val[l][f]

\* an entry or slot is present when it holds a non-empty value
Present(v) == v # Null /\ v # 0

\* C1: a read of a field with fallback language F under an active language L
\* other than the default returns overlay[L][f] when present (non-empty), else
\* overlay[F][f] when present (non-empty), else the base value.
C1_FallbackChain ==
    \A f \in Fields :
        (ret.op = "get" /\ ret.f = f /\ fallbackLang[f] # NoLang
            /\ getLanguage # opt.defaultLanguage)
        => ret.val = IF Present(Overlay(getLanguage, f)) THEN Overlay(getLanguage, f)
                     ELSE IF Present(Overlay(fallbackLang[f], f)) THEN Overlay(fallbackLang[f], f)
                     ELSE base[f]

C1_Witness ==
    /\ ret.op = "get" /\ ret.f = "title"
    /\ fallbackLang["title"] = "de" /\ getLanguage = "fr" /\ opt.defaultLanguage = "en"
    /\ ~Present(Overlay("fr", "title")) /\ Present(Overlay("de", "title"))
    /\ base["title"] # Overlay("de", "title")
    /\ ret.val = Overlay("de", "title")

\* C2: a read of a field without fallback language, under an active language L
\* other than the default and with no overlay[L][f], returns the base value.
C2_DefaultLastResort ==
    \A f \in Fields :
        (ret.op = "get" /\ ret.f = f /\ fallbackLang[f] = NoLang
            /\ getLanguage # opt.defaultLanguage /\ Overlay(getLanguage, f) = Null)
        => ret.val = base[f]

\* the step stores v for (L, f): a write of f while L is active, or of f_L
Stores(L, f, v) == (getLanguage = L /\ FieldSet(f, v)) \/ VirtualSet(f, L, v)

\* C3 as stated: after v is stored for (L, f), L not the default and f without
\* fallback, a read of f under L returns v and a read of f under the default
\* language returns the base value f had before the write.
C3_WriteThenRead ==
    [][\A f \in Fields, L \in Languages, v \in Val :
        (fallbackLang[f] = NoLang /\ L # opt.defaultLanguage /\ Stores(L, f, v))
        => /\ fieldGetAs(L, f)' = v
           /\ fieldGetAs(opt.defaultLanguage, f)' = base[f]]_vars

\* C3 amended: as C3, except that a write of f on a new document whose base
\* slot is empty also stores v in the base slot, so that the read under the
\* default language then returns v.
C3_WriteThenReadBackfill ==
    [][\A f \in Fields, L \in Languages, v \in Val :
        (fallbackLang[f] = NoLang /\ L # opt.defaultLanguage /\ Stores(L, f, v))
        => /\ fieldGetAs(L, f)' = v
           /\ fieldGetAs(opt.defaultLanguage, f)' =
                IF getLanguage = L /\ FieldSet(f, v) /\ isNew /\ ~Present(base[f])
                THEN v ELSE base[f]]_vars

\* after title_fr was written on a stored document with an empty base slot
C3_Witness ==
    /\ ret = NoRet /\ fallbackLang["title"] = NoLang
    /\ ~isNew /\ getLanguage = "fr" /\ opt.defaultLanguage = "en"
    /\ i18n.keys = {"fr"} /\ Overlay("fr", "title") = MaxVal /\ base["title"] = Null
    /\ fieldGet("title") = MaxVal /\ fieldGetAs("en", "title") = Null

\* C4: a write of f with v under an active language L other than the default
\* makes overlay[L][f] = v; the base slot becomes v when the document is new
\* and the slot is empty, and keeps its value in every other case.
C4_Backfill ==
    [][\A f \in Fields, v \in Val :
        (getLanguage # opt.defaultLanguage /\ FieldSet(f, v))
        => /\ i18n'.has /\ getLanguage \in i18n'.keys
           /\ i18n'.val[getLanguage][f] = v
           /\ base'[f] = IF isNew /\ ~Present(base[f]) THEN v ELSE base[f]]_vars

\* languages en, fr, de, default en: the new document written under fr
C4_Witness ==
    /\ isNew /\ opt.defaultLanguage = "en" /\ getLanguage = "fr"
    /\ i18n.has /\ i18n.keys = {"fr"}
    /\ Overlay("fr", "title") = MaxVal /\ base["title"] = MaxVal
    /\ ret = NoRet

\* C5: the stored overlay has no entry keyed by the current default language.
C5_NoDefaultEntry == opt.defaultLanguage \notin i18n.keys

\* C8 as stated: the aggregate read returns an entry for every configured
\* language and marked field: the base values under the default language, and
\* under every other language the stored overlay value, null when there is none.
C8_AggregateStored ==
    [][(ret'.op = "i18n" /\ I18nGet) =>
        \A l \in opt.languages, f \in Fields :
            /\ l \in ret'.agg.keys
            /\ ret'.agg.val[l][f] = IF l = opt.defaultLanguage THEN base[f]
                                    ELSE Overlay(l, f)]_vars

\* C8 amended: the aggregate read returns an entry for every configured language
\* and marked field: the base values under the default language, and under
\* every other language the stored overlay value when it is non-empty, null when
\* there is none or it is empty.
C8_AggregateComplete ==
    [][(ret'.op = "i18n" /\ I18nGet) =>
        \A l \in opt.languages, f \in Fields :
            /\ l \in ret'.agg.keys
            /\ ret'.agg.val[l][f] = IF l = opt.defaultLanguage THEN base[f]
                                    ELSE IF Present(Overlay(l, f)) THEN Overlay(l, f)
                                    ELSE Null]_vars

C8_Witness ==
    /\ ret.op = "i18n" /\ opt.defaultLanguage = "en"
    /\ ret.agg.keys = Languages
    /\ ret.agg.val["en"]["title"] = MaxVal /\ base["title"] = MaxVal
    /\ ret.agg.val["fr"]["title"] = 1
    /\ ret.agg.val["de"]["title"] = Null

\* the language a document resolves to: the instance override, else the
\* schema-wide active language, else the default language
Resolved(doc, o) ==
    IF doc # NoLang THEN doc ELSE IF o.language # NoLang THEN o.language ELSE o.defaultLanguage

\* C6: getLanguage returns the instance override when set, else the schema-wide
\* active language when set, else the default language; after unsetLanguage the
\* result is the schema-wide active language or else the default language.
C6_Precedence ==
    [][/\ ret'.op = "getLanguage" => ret'.lang = Resolved(docLanguage, opt)
       /\ UnsetLanguage => getLanguage' = Resolved(NoLang, opt)]_vars

C6_Witness ==
    /\ ret.op = "getLanguage" /\ ret.lang = "de"
    /\ docLanguage = "de" /\ opt.language = "fr" /\ opt.defaultLanguage = "en"

\* C7: a setter called with an empty code or a code outside the configured
\* languages changes neither the instance override nor any options object, and
\* the resolved language is always one of the configured languages.
C7_InvalidNoop ==
    [][/\ \A l \in LangInputs :
            /\ (l = NoLang \/ l \notin opt.languages) /\ SetLanguage(l)
                  => UNCHANGED <<docLanguage, options>>
            /\ \A m \in Models \cap Schemas :
                  ((l = NoLang \/ l \notin options[optsRef[m]].languages)
                      /\ (StaticSetLanguage(m, l) \/ StaticSetDefaultLanguage(m, l)))
                  => UNCHANGED <<docLanguage, options>>
       /\ getLanguage \in opt.languages
       /\ getLanguage' \in opt.languages']_vars

C7_Witness ==
    /\ ret.op = "rejected"
    /\ docLanguage = "fr" /\ opt.language = "de" /\ opt.defaultLanguage = "fr"

\* the schemas nested in Post, directly or not
NestedInPost == {"Comment", "Tag"}

\* C9: after setDefaultLanguage(lang) with a valid lang on the parent schema,
\* every nested sub-schema has lang as its default language.
C9_Propagation ==
    [][\A l \in Languages :
        (accepts("Post", l, options) /\ StaticSetDefaultLanguage("Post", l))
        => \A s \in NestedInPost : options'[optsRef[s]].defaultLanguage = l]_vars

\* the first model of ms whose schema carries the plugin
RECURSIVE FirstInit(_)
FirstInit(ms) ==
    IF ms = <<>> THEN NoFn
    ELSE IF HasPlugin(Head(ms)) THEN Head(ms) ELSE FirstInit(Tail(ms))

====
